---- MODULE Spec2Model ----
(***************************************************************************)
(* Bevy Pong (src/src/main.rs): the fixed-timestep simulation, the serve   *)
(* scheduler and the frame loop that drives them.                          *)
(*                                                                         *)
(* Units.  f32 positions are kept in fixed point, PX units to the pixel,   *)
(* so that `velocity * TIME_STEP` (TIME_STEP = 1/60 s) is exact for the    *)
(* integer velocities (pixels per second) the program uses.  The two       *)
(* products that yield a velocity (the paddle "spin" and the opponent's    *)
(* gain) are truncated to whole pixels per second.  The frame clock runs   *)
(* in units of 1/ClockRes of a fixed step.                                 *)
(***************************************************************************)
EXTENDS Integers, Sequences, FiniteSets, TLC

\* ------------------------------------------------------------ constants
PX == 60                          \* position units per pixel (1 / TIME_STEP)
WINDOW_WIDTH == 800
WINDOW_HEIGHT == 600
PADDLE_W == 6
PADDLE_H == 46
BALL_W == 8
BALL_H == 8
BOUNCE_ANGLE_MULTIPLIER == 22
BALL_SPEED == 500
PADDLE_X_INSET == 26              \* paddles sit at -+(WINDOW_WIDTH/2 - 26)
PADDLE_MARGIN == 5
WALL_THICKNESS == 40
WALL_OFFSET == 20
GUTTER_W == 26
GUTTER_OFFSET == 3
AI_GAIN == 13
AI_MAX_SPEED == 450
TICKS_PER_SPAWN_DELAY == 30       \* Timer::from_seconds(0.5): 0.5 s = 30 fixed steps
U16_MOD == 65536                  \* Scoreboard counters are u16

\* ------------------------------------------------------------ bounds
ClockRes == 2                     \* clock units per fixed step
MaxTicks == 150                   \* the run is cut after this many fixed steps of clock
StallTicks == 128                 \* the same, for the frame loop that stalls

TIME_STEP == ClockRes
SPAWN_DELAY == TICKS_PER_SPAWN_DELAY * ClockRes
MaxTime == MaxTicks * ClockRes
\* frame times of a display faster than, as fast as and slower than the fixed step
FrameDeltas == {1, ClockRes, 2 * ClockRes}
\* a stalled frame, long enough for a serve to cross half the court
LongFrame == 48 * ClockRes
\* frame times of a frame loop that keeps step but sometimes stalls
StallDeltas == {ClockRes, LongFrame}

\* pointer motion, in pixels of MouseMotion.delta.y (y-down), per frame
PointerDeltas == {-284, 284}
MotionBatches == {<< >>} \cup {<<d * PX>> : d \in PointerDeltas}
\* the pointer of a player who only ever pulls the paddle one way
StallBatches == {<< >>, <<284 * PX>>}

Systems == {"ball_spawner", "player_controller", "opponent_controller",
            "apply_velocity", "process_collisions", "play_sounds"}
FixedSystems == Systems \ {"ball_spawner"}

VARIABLES
  balls,            \* the Ball entities: set of [id, x, y, vx, vy]
  player_y,         \* player paddle Transform.translation.y
  opponent,         \* opponent paddle: [y, vy]
  timer,            \* BallSpawnTimer: [elapsed, finished, times_finished]
  player_turn,      \* PlayerTurn
  scoreboard,       \* Scoreboard: [player, opponent]
  mouse_motion,     \* Events<MouseMotion> not yet read: [prev, cur]
  collision_events, \* Events<CollisionEvent> not yet read: [prev, cur]
  played,           \* what the last play_sounds run handed to the audio sink
  spawn_cmds,       \* ball_spawner's Commands queue
  despawn_cmds,     \* process_collisions' Commands queue
  clock,            \* Time and FixedTimestep: [now, delta, acc, started]
  sched,            \* the stage run loop: [phase, torun, done]
  entities,         \* [next: next entity id, frame: ids spawned in this frame]
  panicked          \* an arithmetic-overflow panic ended the process

vars == <<balls, player_y, opponent, timer, player_turn, scoreboard, mouse_motion,
          collision_events, played, spawn_cmds, despawn_cmds, clock, sched,
          entities, panicked>>

\* ------------------------------------------------------------ arithmetic
Abs(n) == IF n < 0 THEN -n ELSE n
\* f32 product scaled back to the velocity grid, truncated toward zero
Trunc(n, d) == IF n < 0 THEN -((-n) \div d) ELSE n \div d
Clamp(v, lo, hi) == IF v < lo THEN lo ELSE IF v > hi THEN hi ELSE v
RECURSIVE SumSeq(_)
SumSeq(s) == IF s = << >> THEN 0 ELSE Head(s) + SumSeq(Tail(s))
Range(s) == {s[i] : i \in 1..Len(s)}

\* ------------------------------------------------------------ geometry
HalfW == (WINDOW_WIDTH * PX) \div 2
HalfH == (WINDOW_HEIGHT * PX) \div 2
PlayerX == -HalfW + PADDLE_X_INSET * PX
OpponentX == HalfW - PADDLE_X_INSET * PX
Rect(x, y, w, h) == [x |-> x, y |-> y, w |-> w * PX, h |-> h * PX]
TopWall == Rect(0, -HalfH - WALL_OFFSET * PX, WINDOW_WIDTH, WALL_THICKNESS)
\* faulty variant: the upper strip reaches 10 pixels into the court
BottomWallLow == Rect(0, HalfH + (WALL_OFFSET - 10) * PX, WINDOW_WIDTH, WALL_THICKNESS)
BottomWall == Rect(0, HalfH + WALL_OFFSET * PX, WINDOW_WIDTH, WALL_THICKNESS)
LeftGutter == Rect(-HalfW + GUTTER_OFFSET * PX, 0, GUTTER_W, WINDOW_HEIGHT)
RightGutter == Rect(HalfW, GUTTER_OFFSET * PX, GUTTER_W, WINDOW_HEIGHT)
BallRect(b) == Rect(b.x, b.y, BALL_W, BALL_H)
PaddleRect(x, y) == Rect(x, y, PADDLE_W, PADDLE_H)

\* bevy::sprite::collide_aabb::collide (Bevy 0.7): the side of b that a hit,
\* "None" when the boxes do not intersect or a lies inside b on both axes
collide(a, b) ==
  LET a_min_x == a.x - a.w \div 2
      a_max_x == a.x + a.w \div 2
      a_min_y == a.y - a.h \div 2
      a_max_y == a.y + a.h \div 2
      b_min_x == b.x - b.w \div 2
      b_max_x == b.x + b.w \div 2
      b_min_y == b.y - b.h \div 2
      b_max_y == b.y + b.h \div 2
      xc == IF a_min_x < b_min_x /\ a_max_x > b_min_x
              THEN <<"Left", b_min_x - a_max_x>>
            ELSE IF a_min_x < b_max_x /\ a_max_x > b_max_x
              THEN <<"Right", a_min_x - b_max_x>>
            ELSE <<"None", 0>>
      yc == IF a_min_y < b_min_y /\ a_max_y > b_min_y
              THEN <<"Bottom", b_min_y - a_max_y>>
            ELSE IF a_min_y < b_max_y /\ a_max_y > b_max_y
              THEN <<"Top", a_min_y - b_max_y>>
            ELSE <<"None", 0>>
  IN IF a_min_x < b_max_x /\ a_max_x > b_min_x /\ a_min_y < b_max_y /\ a_max_y > b_min_y
       THEN IF xc[1] # "None" /\ yc[1] # "None"
              THEN (IF Abs(yc[2]) < Abs(xc[2]) THEN yc[1] ELSE xc[1])
            ELSE IF xc[1] # "None" THEN xc[1]
            ELSE yc[1]
       ELSE "None"

\* ------------------------------------------------------------ Timer, Events
\* faulty variant: Timer::tick of a repeating timer
TimerTickRepeating(t, d) ==
  IF t.elapsed + d >= SPAWN_DELAY
    THEN [elapsed |-> (t.elapsed + d) % SPAWN_DELAY, finished |-> FALSE, times_finished |-> 1]
    ELSE [elapsed |-> t.elapsed + d, finished |-> FALSE, times_finished |-> 0]
\* Timer::tick of a non-repeating timer
TimerTick(t, d) ==
  IF t.finished
    THEN [t EXCEPT !.times_finished = 0]
    ELSE IF t.elapsed + d >= SPAWN_DELAY
      THEN [elapsed |-> SPAWN_DELAY, finished |-> TRUE, times_finished |-> 1]
      ELSE [elapsed |-> t.elapsed + d, finished |-> FALSE, times_finished |-> 0]
\* faulty variant: the timer is built one clock unit short of its duration
TimerPreArmed == [elapsed |-> SPAWN_DELAY - 1, finished |-> FALSE, times_finished |-> 0]
\* Timer::from_seconds(0.5, false)
TimerNew == [elapsed |-> 0, finished |-> FALSE, times_finished |-> 0]
\* Timer::reset
TimerReset == [elapsed |-> 0, finished |-> FALSE, times_finished |-> 0]
just_finished(t) == t.times_finished > 0

NoEvents == [prev |-> << >>, cur |-> << >>]
\* Events::send
EventsSend(ev, batch) == [ev EXCEPT !.cur = ev.cur \o batch]
\* Events::update: the older buffer is dropped, the newer one becomes the older
EventsUpdate(ev) == [prev |-> ev.cur, cur |-> << >>]
\* EventReader::iter: everything the reader has not seen yet, oldest first
EventsUnread(ev) == ev.prev \o ev.cur

\* ------------------------------------------------------------ scheduling
\* faulty variant: the set declares no order
DepsUnordered(s) == {}
\* .before / .after of the fixed-step system set
Deps(s) ==
  CASE s = "apply_velocity" -> {"player_controller", "opponent_controller"}
    [] s = "process_collisions" ->
         {"player_controller", "opponent_controller", "apply_velocity"}
    [] s = "play_sounds" -> {"process_collisions"}
    [] OTHER -> {}
Ready(s) ==
  /\ ~panicked
  /\ sched.phase = "run"
  /\ s \in sched.torun \ sched.done
  /\ (Deps(s) \cap sched.torun) \subseteq sched.done
Ran(s) == [sched EXCEPT !.done = @ \cup {s}]
\* FixedTimestep run criteria, once the frame's delta is in the accumulator
StepDue(acc) == acc >= TIME_STEP

\* ------------------------------------------------------------ player_controller
lower_bound == -HalfH + (PADDLE_H * PX) \div 2 + PADDLE_MARGIN * PX
upper_bound == HalfH - (PADDLE_H * PX) \div 2 - PADDLE_MARGIN * PX
accumulated_delta_y(batch) == SumSeq([i \in 1..Len(batch) |-> -batch[i]])
\* faulty variant: the paddle follows the pointer off the court
NewPlayerYUnclamped(y, batch) == y + accumulated_delta_y(batch)
NewPlayerY(y, batch) == Clamp(y + accumulated_delta_y(batch), lower_bound, upper_bound)

PlayerController ==
  /\ Ready("player_controller")
  /\ player_y' = NewPlayerY(player_y, EventsUnread(mouse_motion))
  /\ mouse_motion' = NoEvents
  /\ sched' = Ran("player_controller")
  /\ UNCHANGED <<balls, opponent, timer, player_turn, scoreboard, collision_events,
                 played, spawn_cmds, despawn_cmds, clock, entities, panicked>>

\* ------------------------------------------------------------ opponent_controller
\* faulty variant: the proportional term is not saturated
OpponentVelocityUnclamped(bs, oy) ==
  IF Cardinality(bs) = 1
    THEN LET b == CHOOSE b \in bs : TRUE
         IN IF b.vx > 0 THEN Trunc((b.y - oy) * AI_GAIN, PX) ELSE 0
    ELSE 0
OpponentVelocity(bs, oy) ==
  IF Cardinality(bs) = 1
    THEN LET b == CHOOSE b \in bs : TRUE
         IN IF b.vx > 0
              THEN Clamp(Trunc((b.y - oy) * AI_GAIN, PX), -AI_MAX_SPEED, AI_MAX_SPEED)
              ELSE 0
    ELSE 0

OpponentController ==
  /\ Ready("opponent_controller")
  /\ opponent' = [opponent EXCEPT !.vy = OpponentVelocity(balls, opponent.y)]
  /\ sched' = Ran("opponent_controller")
  /\ UNCHANGED <<balls, player_y, timer, player_turn, scoreboard, mouse_motion,
                 collision_events, played, spawn_cmds, despawn_cmds, clock, entities,
                 panicked>>
\* ------------------------------------------------------------ apply_velocity
Moved(b) == [b EXCEPT !.x = @ + b.vx, !.y = @ + b.vy]

ApplyVelocity ==
  /\ Ready("apply_velocity")
  /\ balls' = {Moved(b) : b \in balls}
  /\ opponent' = [opponent EXCEPT !.y = @ + opponent.vy]
  /\ sched' = Ran("apply_velocity")
  /\ UNCHANGED <<player_y, timer, player_turn, scoreboard, mouse_motion,
                 collision_events, played, spawn_cmds, despawn_cmds, clock, entities,
                 panicked>>

\* ------------------------------------------------------------ process_collisions
HitsWall(b) ==
  \/ collide(BallRect(b), TopWall) # "None"
  \/ collide(BallRect(b), BottomWall) # "None"
HitsLeftGutter(b) == collide(BallRect(b), LeftGutter) # "None"
HitsRightGutter(b) == collide(BallRect(b), RightGutter) # "None"
\* faulty variant: any side of a paddle bounces the ball
PaddleBouncesAnySide(c) == c # "None"
\* the match on the paddle collision: only Left and Right bounce
PaddleBounces(c) == c \in {"Left", "Right"}
HitsPaddle(b, x, y) == PaddleBounces(collide(BallRect(b), PaddleRect(x, y)))
dst_from_center(b, y) == b.y - y
\* faulty variant: the bounce keeps the vertical velocity
bounce_off_paddle_flat(v, b, y) == [vx |-> -v.vx, vy |-> v.vy, ev |-> Append(v.ev, "Bounce")]
\* faulty variant: the two components are mixed up
bounce_off_paddle_swapped(v, b, y) ==
  [vx |-> Trunc(dst_from_center(b, y) * BOUNCE_ANGLE_MULTIPLIER, PX),
   vy |-> -v.vy,
   ev |-> Append(v.ev, "Bounce")]
\* the bounce_off_paddle closure
bounce_off_paddle(v, b, y) ==
  [vx |-> -v.vx,
   vy |-> Trunc(dst_from_center(b, y) * BOUNCE_ANGLE_MULTIPLIER, PX),
   ev |-> Append(v.ev, "Bounce")]
\* faulty variant: a wall turns the ball around horizontally
AfterWallsSideways(b) ==
  IF HitsWall(b) THEN [vx |-> -b.vx, vy |-> b.vy, ev |-> <<"Bounce">>]
                 ELSE [vx |-> b.vx, vy |-> b.vy, ev |-> << >>]
\* top/bottom walls
AfterWalls(b) ==
  IF HitsWall(b) THEN [vx |-> b.vx, vy |-> -b.vy, ev |-> <<"Bounce">>]
                 ELSE [vx |-> b.vx, vy |-> b.vy, ev |-> << >>]
\* the events the gutter checks send, left first
GoalEvents(b) ==
  (IF HitsLeftGutter(b) THEN <<"Goal">> ELSE << >>)
    \o (IF HitsRightGutter(b) THEN <<"Goal">> ELSE << >>)
GoalDespawns(b) ==
  (IF HitsLeftGutter(b) THEN <<b.id>> ELSE << >>)
    \o (IF HitsRightGutter(b) THEN <<b.id>> ELSE << >>)
\* the loop over the colliders, player paddle first
AfterPaddles(v, b, py, oy) ==
  LET v1 == IF HitsPaddle(b, PlayerX, py) THEN bounce_off_paddle(v, b, py) ELSE v
  IN IF HitsPaddle(b, OpponentX, oy) THEN bounce_off_paddle(v1, b, oy) ELSE v1
\* u16 += 1: wraps in a release build, panics in a debug build
WouldOverflow(n) == n + 1 >= U16_MOD
IncU16(n) == (n + 1) % U16_MOD
ScoreAfter(sb, b) ==
  [player |-> IF HitsRightGutter(b) THEN IncU16(sb.player) ELSE sb.player,
   opponent |-> IF HitsLeftGutter(b) THEN IncU16(sb.opponent) ELSE sb.opponent]
ScoreOverflows(sb, b) ==
  \/ HitsLeftGutter(b) /\ WouldOverflow(sb.opponent)
  \/ HitsRightGutter(b) /\ WouldOverflow(sb.player)
\* One run of the body on the single ball b.  `+= 1` on a full u16 panics in a
\* debug build, after the despawn was queued and the timer reset, and wraps in a
\* release build.
Collided(b, py, oy, sb, build) ==
  LET w == AfterWalls(b)
      v == AfterPaddles([w EXCEPT !.ev = w.ev \o GoalEvents(b)], b, py, oy)
  IN IF build = "debug" /\ ScoreOverflows(sb, b)
       THEN [ball |-> [b EXCEPT !.vx = w.vx, !.vy = w.vy], ev |-> w.ev,
             despawns |-> <<b.id>>, score |-> sb, panicked |-> TRUE]
       ELSE [ball |-> [b EXCEPT !.vx = v.vx, !.vy = v.vy], ev |-> v.ev,
             despawns |-> GoalDespawns(b), score |-> ScoreAfter(sb, b),
             panicked |-> FALSE]

\* faulty variant: the query is unwrapped, which panics without a ball
NoBallFoundPanics ==
  /\ panicked' = TRUE
  /\ UNCHANGED <<balls, timer, scoreboard, collision_events, despawn_cmds>>
\* get_single_mut is not Ok: the body is skipped
NoBallFound ==
  UNCHANGED <<balls, timer, scoreboard, collision_events, despawn_cmds, panicked>>

ProcessCollisions ==
  /\ Ready("process_collisions")
  /\ sched' = Ran("process_collisions")
  /\ IF Cardinality(balls) = 1
       THEN \E build \in {"debug", "release"} :
              LET b == CHOOSE b \in balls : TRUE
                  r == Collided(b, player_y, opponent.y, scoreboard, build)
              IN /\ balls' = {r.ball}
                 /\ timer' = IF r.despawns # << >> THEN TimerReset ELSE timer
                 /\ scoreboard' = r.score
                 /\ collision_events' = EventsSend(collision_events, r.ev)
                 /\ despawn_cmds' = despawn_cmds \o r.despawns
                 /\ panicked' = r.panicked
       ELSE NoBallFound
  /\ UNCHANGED <<player_y, opponent, player_turn, mouse_motion, played, spawn_cmds,
                 clock, entities>>

\* ------------------------------------------------------------ play_sounds
PlaySounds ==
  /\ Ready("play_sounds")
  /\ played' = EventsUnread(collision_events)
  /\ collision_events' = NoEvents
  /\ sched' = Ran("play_sounds")
  /\ UNCHANGED <<balls, player_y, opponent, timer, player_turn, scoreboard,
                 mouse_motion, spawn_cmds, despawn_cmds, clock, entities, panicked>>

\* ------------------------------------------------------------ ball_spawner
\* faulty variant: every serve goes the same way
dir_multiplier_stuck(turn) == -1
dir_multiplier(turn) == IF turn THEN -1 ELSE 1
\* faulty variant: a slower serve
NewBallSlow(id, turn) ==
  [id |-> id, x |-> 0, y |-> 0, vx |-> 300 * dir_multiplier(turn), vy |-> 0]
NewBall(id, turn) ==
  [id |-> id, x |-> 0, y |-> 0, vx |-> BALL_SPEED * dir_multiplier(turn), vy |-> 0]

BallSpawner ==
  /\ Ready("ball_spawner")
  /\ timer' = TimerTick(timer, clock.delta)
  /\ IF just_finished(timer')
       THEN /\ spawn_cmds' = Append(spawn_cmds, NewBall(entities.next, player_turn))
            /\ entities' = [entities EXCEPT !.next = @ + 1]
            /\ player_turn' = ~player_turn
       ELSE UNCHANGED <<spawn_cmds, entities, player_turn>>
  /\ sched' = Ran("ball_spawner")
  /\ UNCHANGED <<balls, player_y, opponent, scoreboard, mouse_motion, collision_events,
                 played, despawn_cmds, clock, panicked>>

\* ------------------------------------------------------------ frame loop
\* Commands applied at the end of a pass, ball_spawner's queue first
Spawned(bs, cmds) == bs \cup Range(cmds)
\* faulty variant: despawn commands are dropped
DespawnedNever(bs, cmds) == bs
Despawned(bs, cmds) == {b \in bs : b.id \notin Range(cmds)}
AfterCommands(bs) == Despawned(Spawned(bs, spawn_cmds), despawn_cmds)

\* the window system's input, then CoreStage::First (Time, Events::update) and the
\* first evaluation of the FixedTimestep run criteria
BeginFrame(d, batch) ==
  /\ ~panicked
  /\ sched.phase = "idle"
  /\ clock.now + d <= MaxTime
  /\ mouse_motion' = EventsUpdate(EventsSend(mouse_motion, batch))
  /\ collision_events' = EventsUpdate(collision_events)
  /\ LET acc == clock.acc + d
     IN /\ clock' = [now |-> clock.now + d, delta |-> d, started |-> TRUE,
                     acc |-> IF StepDue(acc) THEN acc - TIME_STEP ELSE acc]
        /\ sched' = [phase |-> "run", done |-> {},
                     torun |-> IF StepDue(acc) THEN Systems ELSE {"ball_spawner"}]
  /\ entities' = [entities EXCEPT !.frame = {}]
  /\ UNCHANGED <<balls, player_y, opponent, timer, player_turn, scoreboard, played,
                 spawn_cmds, despawn_cmds, panicked>>

\* Time's delta is zero in the first frame
Frame(deltas, batches) ==
  \E batch \in batches :
    \E d \in (IF clock.started THEN deltas ELSE {0}) : BeginFrame(d, batch)

\* end of one pass of the stage's system loop: apply the buffers, then ask the
\* run criteria again
EndPass ==
  /\ ~panicked
  /\ sched.phase = "run"
  /\ sched.torun \subseteq sched.done
  /\ balls' = AfterCommands(balls)
  /\ entities' = [entities EXCEPT !.frame = @ \cup {b.id : b \in Range(spawn_cmds)}]
  /\ spawn_cmds' = << >>
  /\ despawn_cmds' = << >>
  /\ IF "apply_velocity" \in sched.torun /\ StepDue(clock.acc)
       THEN /\ clock' = [clock EXCEPT !.acc = @ - TIME_STEP]
            /\ sched' = [phase |-> "run", done |-> {}, torun |-> FixedSystems]
       ELSE /\ sched' = [phase |-> "idle", done |-> {}, torun |-> {}]
            /\ UNCHANGED clock
  /\ UNCHANGED <<player_y, opponent, timer, player_turn, scoreboard, mouse_motion,
                 collision_events, played, panicked>>

\* ------------------------------------------------------------ specification
Init ==
  /\ balls = {}
  /\ player_y = 0
  /\ opponent = [y |-> 0, vy |-> 0]
  /\ timer = TimerNew
  /\ player_turn = TRUE
  /\ scoreboard = [player |-> 0, opponent |-> 0]
  /\ mouse_motion = NoEvents
  /\ collision_events = NoEvents
  /\ played = << >>
  /\ spawn_cmds = << >>
  /\ despawn_cmds = << >>
  /\ clock = [now |-> 0, delta |-> 0, acc |-> 0, started |-> FALSE]
  /\ sched = [phase |-> "idle", done |-> {}, torun |-> {}]
  /\ entities = [next |-> 1, frame |-> {}]
  /\ panicked = FALSE

Next ==
  \/ Frame(FrameDeltas, MotionBatches)
  \/ BallSpawner
  \/ PlayerController
  \/ OpponentController
  \/ ApplyVelocity
  \/ ProcessCollisions
  \/ PlaySounds
  \/ EndPass

Spec == Init /\ [][Next]_vars

\* the same program under a frame loop that stalls
NextStall ==
  \/ Frame(StallDeltas, StallBatches) /\ clock'.now <= StallTicks * ClockRes
  \/ BallSpawner
  \/ PlayerController
  \/ OpponentController
  \/ ApplyVelocity
  \/ ProcessCollisions
  \/ PlaySounds
  \/ EndPass

SpecStall == Init /\ [][NextStall]_vars
\* ------------------------------------------------------------ one fixed step
\* The fixed-step systems from the states a rally passes through: the ball on the
\* lattice of its horizontal motion (multiples of BALL_SPEED * TIME_STEP from the
\* centre), clear of the wall strips, with a vertical speed a paddle can give it.
BallColumns == {-45, -44, 0, 44, 45}
BallRows == {-295, 0, 295}
BallClimbs == {-420, -120, 0, 120, 420}
PaddleRows == {-272, 0, 272}
OpponentRows == {-290, 0, 290}
Scores == {0, U16_MOD - 1}
TimerDone == [elapsed |-> SPAWN_DELAY, finished |-> TRUE, times_finished |-> 0]
BallsInPlay(id) ==
  {{[id |-> id, x |-> k * BALL_SPEED, y |-> r * PX, vx |-> s * BALL_SPEED, vy |-> c]} :
     k \in BallColumns, r \in BallRows, s \in {-1, 1}, c \in BallClimbs}
\* a ball climbing towards the upper wall strip, 20 pixels below the court's edge
ClimbingBalls(id) ==
  {{[id |-> id, x |-> k * BALL_SPEED, y |-> 280 * PX, vx |-> s * BALL_SPEED, vy |-> 400]} :
     k \in {-3, 0}, s \in {-1, 1}}

\* The start of a fixed pass with steps more fixed steps due in the same frame,
\* after n goals for each side: the ball in play, if any, is the (2n+1)-th served
\* and may be one of the climbing balls.
StartOfPass(climbing, steps) ==
  \E n \in Scores :
    /\ scoreboard = [player |-> n, opponent |-> n]
    /\ balls \in BallsInPlay(2 * n + 1)
                  \cup (IF climbing THEN ClimbingBalls(2 * n + 1) ELSE {})
                  \cup {{}}
    /\ entities = [next |-> 2 * n + 1 + Cardinality(balls), frame |-> {}]
    /\ player_turn = (balls = {})
    /\ timer = IF balls = {} THEN TimerReset ELSE TimerDone
    /\ player_y \in {r * PX : r \in PaddleRows}
    /\ opponent \in {[y |-> r * PX, vy |-> 0] : r \in OpponentRows}
    /\ mouse_motion \in {[prev |-> m, cur |-> << >>] : m \in MotionBatches}
    /\ collision_events = NoEvents
    /\ played = << >>
    /\ spawn_cmds = << >>
    /\ despawn_cmds = << >>
    /\ clock = [now |-> 0, delta |-> (steps + 1) * TIME_STEP, acc |-> steps * TIME_STEP,
                started |-> TRUE]
    /\ sched = [phase |-> "run", done |-> {}, torun |-> FixedSystems]
    /\ panicked = FALSE

InitTick == StartOfPass(FALSE, 0)

NextTick ==
  \/ PlayerController
  \/ OpponentController
  \/ ApplyVelocity
  \/ ProcessCollisions
  \/ PlaySounds
  \/ EndPass

SpecTick == InitTick /\ [][NextTick]_vars

\* ------------------------------------------------------------ three fixed steps
\* a frame that owes three fixed steps, from the same states and from a ball
\* climbing to the upper wall
InitRally == StartOfPass(TRUE, 2)
SpecRally == InitRally /\ [][NextTick]_vars
\* ------------------------------------------------------------ properties
\* the step of the behaviour that runs system s
StepOf(s) == s \notin sched.done /\ s \in sched'.done
\* the step that applies the command buffers
CommandsApplied == sched.done # {} /\ sched'.done = {}
GoalRecorded == Len(despawn_cmds') > Len(despawn_cmds)
SpawnIssued == Len(spawn_cmds') > Len(spawn_cmds)
\* the n-th ball served since the start: away from the player's side first
ServeOf(n) ==
  [id |-> n, x |-> 0, y |-> 0, vy |-> 0,
   vx |-> IF n % 2 = 1 THEN -BALL_SPEED ELSE BALL_SPEED]

\* C1 (ball lifecycle).  A goal resets the serve timer to zero elapsed time and
\* nothing else resets it; once the commands of a pass are applied no ball exists
\* while the timer is still running; the timer's expiry, and only that, issues
\* exactly one spawn: the ball at the centre, no vertical velocity, horizontal
\* speed BALL_SPEED, its sign opposite to the previous serve's (the first serve
\* goes to the left); and that spawn is the only ball once it is applied.
LifecycleStep ==
  /\ GoalRecorded => timer' = [elapsed |-> 0, finished |-> FALSE, times_finished |-> 0]
  /\ (timer.finished /\ ~timer'.finished) => GoalRecorded
  /\ SpawnIssued <=> (~timer.finished /\ timer'.finished)
  /\ SpawnIssued => /\ spawn_cmds = << >>
                    /\ spawn_cmds' = <<ServeOf(entities.next)>>
                    /\ entities'.next = entities.next + 1
  /\ CommandsApplied =>
       /\ ~timer'.finished => balls' = {}
       /\ spawn_cmds # << >> => balls' = Range(spawn_cmds)
       /\ spawn_cmds = << >> => balls' \subseteq balls
BallLifecycle == [][LifecycleStep]_vars
\* a second ball is in play: served after the first goal
BallLifecycleWitness ==
  /\ scoreboard.player + scoreboard.opponent = 1
  /\ \E b \in balls : b.id = 2 /\ b.vx = BALL_SPEED /\ b.x > 0
\* C2 as stated (at most one ball).  Never more than one Ball entity, and no
\* ball is despawned in the frame that spawned it.
OneBallPerFrame ==
  /\ Cardinality(balls) <= 1
  /\ \A id \in Range(despawn_cmds) : id \notin entities.frame
\* C2, amended.  Never more than one Ball entity, before and after the command
\* buffers of a pass are applied, and the buffers applied together never spawn
\* and despawn the same ball: a despawn names a ball that an earlier pass's
\* buffers created.
OneBall ==
  /\ Cardinality(balls) <= 1
  /\ Cardinality(AfterCommands(balls)) <= 1
  /\ \A id \in Range(despawn_cmds) :
       /\ id \notin {c.id : c \in Range(spawn_cmds)}
       /\ \E b \in balls : b.id = id
\* a goal and the next serve wait in the buffers of the same pass
OneBallWitness ==
  /\ spawn_cmds # << >>
  /\ despawn_cmds # << >>
  /\ balls # {}
\* the ball process_collisions works on, and what that run sent
TheBall == CHOOSE b \in balls : TRUE
TheBallAfter == CHOOSE b \in balls' : TRUE
Sent == SubSeq(collision_events'.cur, Len(collision_events.cur) + 1,
               Len(collision_events'.cur))
CollisionStep == StepOf("process_collisions") /\ Cardinality(balls) = 1
Overlaps(a, b) ==
  /\ a.x - a.w \div 2 < b.x + b.w \div 2
  /\ a.x + a.w \div 2 > b.x - b.w \div 2
  /\ a.y - a.h \div 2 < b.y + b.h \div 2
  /\ a.y + a.h \div 2 > b.y - b.h \div 2
PlayerSide(b) == collide(BallRect(b), PaddleRect(PlayerX, player_y))
OpponentSide(b) == collide(BallRect(b), PaddleRect(OpponentX, opponent.y))
Mirror(b) == [b EXCEPT !.x = -b.x, !.vx = -b.vx]

\* C3 (goal monotonicity).  No step lowers a score counter; a run of
\* process_collisions raises opponent by exactly 1 when the ball hits the left
\* gutter and player by exactly 1 when it hits the right gutter, and by 0
\* otherwise; no other step changes the scoreboard.
GoalMonotonicStep ==
  /\ scoreboard'.player >= scoreboard.player
  /\ scoreboard'.opponent >= scoreboard.opponent
  /\ CollisionStep =>
       /\ scoreboard'.opponent - scoreboard.opponent =
            (IF HitsLeftGutter(TheBall) THEN 1 ELSE 0)
       /\ scoreboard'.player - scoreboard.player =
            (IF HitsRightGutter(TheBall) THEN 1 ELSE 0)
  /\ ~CollisionStep => scoreboard' = scoreboard
GoalMonotonic == [][GoalMonotonicStep]_vars

\* C4 (the two goals are symmetric).  A ball scores on the right exactly where
\* its mirror image about the court centre scores on the left.
GoalSymmetry ==
  \A b \in balls : HitsRightGutter(b) <=> HitsLeftGutter(Mirror(b))

PaddleBounce ==
  [][CollisionStep =>
       \A p \in {<<PlayerSide(TheBall), player_y>>, <<OpponentSide(TheBall), opponent.y>>} :
         p[1] \in {"Left", "Right"} =>
           /\ TheBallAfter.vx = -TheBall.vx
           /\ TheBallAfter.vy = Trunc((TheBall.y - p[2]) * 22, PX)
           /\ Sent # << >> /\ Sent[Len(Sent)] = "Bounce"]_vars
\* the ball was hit off-centre by the player's paddle and now climbs or falls
PaddleBounceWitness ==
  /\ "process_collisions" \in sched.done
  /\ \E b \in balls : /\ PlayerSide(b) = "Left"
                      /\ b.vx = BALL_SPEED
                      /\ b.y # player_y
                      /\ b.vy = Trunc((b.y - player_y) * 22, PX)
                      /\ b.vy # 0

\* what the wall and gutter checks of one run send, before any paddle is looked at
SentBeforePaddles(b) ==
  (IF HitsWall(b) THEN <<"Bounce">> ELSE << >>)
    \o (IF HitsLeftGutter(b) THEN <<"Goal">> ELSE << >>)
    \o (IF HitsRightGutter(b) THEN <<"Goal">> ELSE << >>)
\* C7 as stated (paddle side filter).  A run of process_collisions on a ball
\* that hits a paddle on its Top or Bottom side leaves both components of the
\* ball's velocity unchanged and sends no Bounce for a paddle.
PaddleSideFilterStrict ==
  [][CollisionStep /\ (\/ PlayerSide(TheBall) \in {"Top", "Bottom"}
                       \/ OpponentSide(TheBall) \in {"Top", "Bottom"})
       => /\ TheBallAfter.vx = TheBall.vx
          /\ TheBallAfter.vy = TheBall.vy
          /\ Sent = SentBeforePaddles(TheBall)]_vars
\* C7, amended.  The same, except that the vertical velocity is negated when the
\* ball also collides with a wall strip in that run.
PaddleSideFilter ==
  [][CollisionStep /\ (\/ PlayerSide(TheBall) \in {"Top", "Bottom"}
                       \/ OpponentSide(TheBall) \in {"Top", "Bottom"})
       => /\ TheBallAfter.vx = TheBall.vx
          /\ TheBallAfter.vy = (IF HitsWall(TheBall) THEN -TheBall.vy ELSE TheBall.vy)
          /\ Sent = SentBeforePaddles(TheBall)]_vars
\* the ball clipped the end of the player's paddle and went on to the left
PaddleSideFilterWitness ==
  /\ "process_collisions" \in sched.done
  /\ \E b \in balls : PlayerSide(b) \in {"Top", "Bottom"} /\ b.vx = -BALL_SPEED

\* C8 (paddle bound clamp).  The player's paddle is always within [-272, 272]
\* pixels; a run of player_controller moves it by the negated sum of the unread
\* pointer deltas, clamped to that range, and leaves it alone when there are none.
PaddleClamp ==
  /\ [](player_y >= -272 * PX /\ player_y <= 272 * PX)
  /\ [][StepOf("player_controller") =>
          /\ player_y' = Clamp(player_y - SumSeq(EventsUnread(mouse_motion)),
                               -272 * PX, 272 * PX)
          /\ EventsUnread(mouse_motion) = << >> => player_y' = player_y]_vars
\* the pointer asked for more than the court allows
PaddleClampWitness ==
  /\ "player_controller" \in sched.done
  /\ player_y = 272 * PX

\* C9 (opponent AI output).  The opponent's vertical velocity never exceeds 450
\* in magnitude; a run of opponent_controller sets it to
\* clamp(13 * (ball.y - opponent.y), -450, 450) when a single ball moves to the
\* right and to 0 otherwise.
OpponentAI ==
  /\ [](opponent.vy >= -450 /\ opponent.vy <= 450)
  /\ [][StepOf("opponent_controller") =>
          opponent'.vy =
            (IF Cardinality(balls) = 1 /\ TheBall.vx > 0
               THEN Clamp(Trunc(13 * (TheBall.y - opponent.y), PX), -450, 450)
               ELSE 0)]_vars
\* the ball is further away than the opponent can close in one step
OpponentAIWitness ==
  /\ "opponent_controller" \in sched.done
  /\ opponent.vy = 450
  /\ \E b \in balls : b.vx > 0 /\ 13 * (b.y - opponent.y) > 450 * PX

\* the first movement of a ball just served to the left
FirstTickOfServe ==
  /\ StepOf("apply_velocity")
  /\ \E b \in balls : b.id = 1 /\ b.x = 0 /\ b.y = 0 /\ b.vx < 0
\* C10 as stated (centre serve).  The first serve is a ball at (0, 0) with
\* velocity (-300, 0); one fixed step later it is at (-5, 0), to a hundredth of
\* a pixel.
CentreServe300 ==
  [][/\ (SpawnIssued /\ entities.next = 1) =>
          spawn_cmds' = <<[id |-> 1, x |-> 0, y |-> 0, vx |-> -300, vy |-> 0]>>
     /\ FirstTickOfServe =>
          /\ 100 * Abs(TheBallAfter.x + 5 * PX) <= PX
          /\ TheBallAfter.y = 0]_vars
\* C10, amended.  The first serve is a ball at (0, 0) with velocity (-500, 0);
\* one fixed step later it is at (-500/60, 0), about (-8.33, 0).
CentreServe ==
  [][/\ (SpawnIssued /\ entities.next = 1) =>
          spawn_cmds' = <<[id |-> 1, x |-> 0, y |-> 0, vx |-> -500, vy |-> 0]>>
     /\ FirstTickOfServe =>
          /\ 60 * TheBallAfter.x = -500 * PX
          /\ 100 * Abs(TheBallAfter.x * 100 + 833 * PX) <= 100 * PX
          /\ TheBallAfter.y = 0]_vars
\* the first ball, one step after its serve
CentreServeWitness ==
  /\ "apply_velocity" \in sched.done
  /\ \E b \in balls : b.id = 1 /\ 60 * b.x = -500 * PX /\ b.y = 0 /\ b.vx = -500 /\ b.vy = 0

\* the ball was at y = 280 with vertical velocity 400 k fixed steps ago and has
\* climbed freely since
ClimbedFrom280(b, k) == b.vy = 400 /\ b.y = 280 * PX + k * 400
ClearOfPaddles(b) ==
  /\ PlayerSide(b) \notin {"Left", "Right"}
  /\ OpponentSide(b) \notin {"Left", "Right"}
\* C11 as stated (scenario, wall bounce).  A ball at y = 280 climbing at 400 is
\* found overlapping the upper wall strip by the next fixed step (motion, then
\* collisions), which leaves it with vertical velocity -400.
WallBounceScenarioNextTick ==
  [][CollisionStep /\ ClimbedFrom280(TheBall, 1)
       => /\ Overlaps(BallRect(TheBall), BottomWall)
          /\ TheBallAfter.vy = -400]_vars
\* C11, amended.  The next fixed step moves that ball to y = 286.67 and the one
\* after to y = 293.33, both clear of the strip that starts at 300, and leave its
\* velocity alone; the third moves it to y = 300, where its upper edge at 304
\* overlaps the strip, and leaves it with vertical velocity -400.
WallBounceScenario ==
  [][\A k \in 1..3 :
       CollisionStep /\ ClimbedFrom280(TheBall, k) /\ ClearOfPaddles(TheBall) =>
         /\ 3 * TheBall.y = (840 + 20 * k) * PX
         /\ Overlaps(BallRect(TheBall), BottomWall) <=> k = 3
         /\ TheBallAfter.vy = (IF k = 3 THEN -400 ELSE 400)
         /\ TheBallAfter.vx = TheBall.vx]_vars
\* the ball after its third step: at y = 300, turned back by the strip
WallBounceScenarioWitness ==
  /\ "process_collisions" \in sched.done
  /\ clock.acc = 0
  /\ \E b \in balls : b.y = 300 * PX /\ b.vy = -400

\* C12 (intra-tick ordering).  In every fixed pass, whatever order the executor
\* picks, apply_velocity runs only after player_controller and
\* opponent_controller have run, process_collisions only after apply_velocity,
\* and play_sounds only after process_collisions, whose events of that pass it
\* then reads; no fixed-step system runs twice in a pass.
IntraTickOrder ==
  [][/\ StepOf("apply_velocity") =>
          {"player_controller", "opponent_controller"} \subseteq sched.done
     /\ StepOf("process_collisions") =>
          {"player_controller", "opponent_controller", "apply_velocity"}
             \subseteq sched.done
     /\ StepOf("play_sounds") =>
          /\ {"player_controller", "opponent_controller", "apply_velocity",
               "process_collisions"} \subseteq sched.done
          /\ played' = collision_events.cur
     /\ \A s \in FixedSystems : s \in sched.done => ~StepOf(s) /\ (sched'.done = {} \/ s \in sched'.done)
     /\ (CommandsApplied /\ "apply_velocity" \in sched.torun) =>
          FixedSystems \subseteq sched.done]_vars
\* a whole fixed pass has run and the sounds of its collisions were played
IntraTickOrderWitness ==
  /\ FixedSystems \subseteq sched.done
  /\ played = <<"Bounce">>
  /\ \E b \in balls : PlayerSide(b) = "Left" /\ b.vx > 0

\* the step that starts a frame: the window's input, Time, Events::update
FrameStarts == sched.phase = "idle" /\ sched'.phase = "run"
\* C13 (pointer input is drained exhaustively and exactly once).  No pointer
\* delta is dropped unread when a frame starts, whether the frame before ran no
\* fixed step or several; a run of player_controller adds the negated sum of
\* every delta not read so far to the paddle's position and leaves none to be
\* read again.
PointerDrain ==
  [][/\ FrameStarts => EventsUnread(mouse_motion) = << >>
     /\ StepOf("player_controller") =>
          /\ player_y' = Clamp(player_y - SumSeq(EventsUnread(mouse_motion)),
                               lower_bound, upper_bound)
          /\ EventsUnread(mouse_motion') = << >>]_vars

\* the Bounce events the paddle loop of one run sends
SentForPaddles(b) ==
  (IF PlayerSide(b) \in {"Left", "Right"} THEN <<"Bounce">> ELSE << >>)
    \o (IF OpponentSide(b) \in {"Left", "Right"} THEN <<"Bounce">> ELSE << >>)
\* C14 (collision events are consumed exactly once, in detection order).  The
\* events a run of process_collisions sends are the wall's Bounce, then the
\* Goals, then the paddles' Bounces; the run of play_sounds in the same pass
\* hands exactly the unread events to the audio sink, in that order, and leaves
\* none to be read again; no event is still unread when the tick is over, when
\* the next frame starts or when the process has stopped.
CollisionEventsOnce ==
  /\ []((sched.phase = "idle" \/ panicked) => EventsUnread(collision_events) = << >>)
  /\ [][/\ CollisionStep =>
            \E g \in {<< >>, <<"Goal">>, <<"Goal", "Goal">>} :
              Sent = (IF HitsWall(TheBall) THEN <<"Bounce">> ELSE << >>)
                       \o g \o SentForPaddles(TheBall)
        /\ StepOf("play_sounds") =>
             /\ played' = EventsUnread(collision_events)
             /\ EventsUnread(collision_events') = << >>
        /\ FrameStarts => EventsUnread(collision_events) = << >>]_vars

\* C15 (a ball never stops).  Every ball, from the spawn command that creates it
\* to its despawn, has a horizontal velocity of magnitude BALL_SPEED, so its
\* velocity is never the zero vector; a wall bounce keeps the horizontal
\* velocity and a paddle bounce only changes its sign.
BallNeverStops ==
  /\ [](\A b \in balls \cup Range(spawn_cmds) :
          Abs(b.vx) = BALL_SPEED /\ <<b.vx, b.vy>> # <<0, 0>>)
  /\ [][\A b \in balls : \A c \in balls' :
          b.id = c.id => /\ Abs(c.vx) = Abs(b.vx)
                         /\ c.vx # b.vx => /\ CollisionStep
                                            /\ SentForPaddles(b) # << >>]_vars
\* the first ball after the player's paddle and then the wall turned it
BallNeverStopsWitness ==
  /\ "process_collisions" \in sched.done
  /\ \E b \in balls : /\ b.id = 1
                      /\ b.vx = BALL_SPEED
                      /\ HitsWall(b)
                      /\ b.vy # 0

\* C16 (ball absence is a no-op).  A run of process_collisions in a pass where
\* no ball exists changes neither the scoreboard, the serve timer, the turn
\* flag nor the paddles, sends no event, issues no command and does not panic.
NoBallNoOp ==
  [][StepOf("process_collisions") /\ balls = {} =>
       /\ UNCHANGED <<balls, scoreboard, timer, player_turn, player_y, opponent,
                      collision_events, despawn_cmds, spawn_cmds, played, entities>>
       /\ ~panicked']_vars
\* the collision step of a tick between a goal and the next serve
NoBallNoOpWitness ==
  /\ "process_collisions" \in sched.done
  /\ balls = {}
  /\ ~timer.finished
  /\ scoreboard.opponent = 1
  /\ ~panicked

FirstSpawnIssued == SpawnIssued /\ entities.next = 1
\* C17 as stated (initial serve).  The session starts without a ball and with
\* the serve timer about to expire: the first ball is spawned before the serve
\* delay that follows a goal has passed, and moves in the negative-x direction.
InitialServeEarly ==
  /\ (~clock.started => balls = {})
  /\ [][FirstSpawnIssued =>
          /\ clock.now < SPAWN_DELAY
          /\ \A b \in Range(spawn_cmds') : b.vx < 0]_vars
\* C17, amended.  The session starts without a ball, with the turn flag true and
\* with the serve timer at zero elapsed time: no ball is spawned before the
\* frame clock has advanced by the full serve delay, the first spawn is issued
\* by the first run of ball_spawner after that, and the first ball moves in the
\* negative-x direction.
InitialServe ==
  /\ (~clock.started => balls = {} /\ player_turn /\ timer.elapsed = 0 /\ ~timer.finished)
  /\ [](clock.now < SPAWN_DELAY => balls = {} /\ spawn_cmds = << >> /\ entities.next = 1)
  /\ [][/\ FirstSpawnIssued =>
            /\ clock.now >= SPAWN_DELAY
            /\ clock.now - clock.delta < SPAWN_DELAY
            /\ \A b \in Range(spawn_cmds') : b.vx = -BALL_SPEED
        /\ (StepOf("ball_spawner") /\ clock.now >= SPAWN_DELAY /\ entities.next = 1) =>
             FirstSpawnIssued]_vars
\* the first ball, in the frame in which the serve delay ran out
InitialServeWitness ==
  /\ clock.now = SPAWN_DELAY
  /\ \E b \in balls : b.id = 1 /\ b.vx = -BALL_SPEED /\ b.x = 0

TimerRewound == timer'.elapsed < timer.elapsed \/ (timer.finished /\ ~timer'.finished)
TimerExpires == ~timer.finished /\ timer'.finished
\* C18 as stated (serve timer and ball exclude each other).  Whenever a ball
\* exists the serve timer is finished, and whenever the timer is still counting
\* no ball exists; only a goal resets the timer, and a spawn is issued only by
\* the step in which the timer goes from not finished to finished.
TimerBallExclusionAlways ==
  /\ [](balls # {} => timer.finished)
  /\ [][/\ TimerRewound => GoalRecorded
        /\ SpawnIssued => TimerExpires]_vars
\* C18, amended.  The same, except that the ball of a goal still exists, with
\* the timer already reset, until the despawn command of that goal is applied at
\* the end of the pass: a ball exists while the timer is counting only when its
\* despawn is pending, and never once the commands of a pass are applied.
TimerBallExclusion ==
  /\ [](\A b \in balls : timer.finished \/ b.id \in Range(despawn_cmds))
  /\ [][/\ TimerRewound => GoalRecorded
        /\ SpawnIssued => TimerExpires
        /\ CommandsApplied => (balls' # {} => timer'.finished)]_vars
\* the rest of the pass that scored: the timer is reset, the ball not yet gone
TimerBallExclusionWitness ==
  /\ balls # {}
  /\ ~timer.finished
  /\ \A b \in balls : b.id \in Range(despawn_cmds)
  /\ "process_collisions" \in sched.done
  /\ ~panicked

\* the number of balls spawned so far, pending spawn commands included
BallsSpawned == entities.next - 1
\* C19 (conservation of balls).  In every state in which no command is pending,
\* the number of balls spawned so far equals scoreboard.player +
\* scoreboard.opponent + the number of balls that exist; no step scores for
\* both sides.
BallConservation ==
  /\ []((spawn_cmds = << >> /\ despawn_cmds = << >>) =>
          BallsSpawned = scoreboard.player + scoreboard.opponent + Cardinality(balls))
  /\ [][scoreboard'.player = scoreboard.player
          \/ scoreboard'.opponent = scoreboard.opponent]_vars

\* where the ball was before the apply_velocity run of this pass
Unmoved(b) == [b EXCEPT !.x = @ - b.vx, !.y = @ - b.vy]
\* C20 (a wall bounce sends the ball back into the court).  A run of
\* process_collisions on a ball that overlaps the upper wall strip leaves it
\* moving down, and on a ball that overlaps the lower strip moving up, also when
\* a paddle bounce is resolved after the wall check; a ball that collides with a
\* wall strip in one fixed step did not collide with one in the step before.
WallSendsBack ==
  [][CollisionStep =>
       /\ Overlaps(BallRect(TheBall), BottomWall) => TheBallAfter.vy < 0
       /\ Overlaps(BallRect(TheBall), TopWall) => TheBallAfter.vy > 0
       /\ HitsWall(TheBall) => ~HitsWall(Unmoved(TheBall))]_vars
====
